---- MODULE Spec2Model ----
(***************************************************************************)
(* Model of the programs of the repository.                                *)
(*                                                                         *)
(* Part I: algorithms/distributed_query/main.go, DistributedQuery: one     *)
(* worker goroutine per replica (bounded retries with a backoff), a        *)
(* janitor goroutine closing the result channel after the WaitGroup, and   *)
(* the collector loop of the calling goroutine, all under one context with *)
(* a deadline.  Time is counted in units of 500ms.                         *)
(*                                                                         *)
(* Part II: concurrency/pub_sub/main.go, PubSubManager: the methods        *)
(* Publish, Subscribe, Unsubscribe and Close under the RWMutex, the        *)
(* delivery goroutine each Publish starts, and the consumers of the        *)
(* subscriber channels.                                                    *)
(*                                                                         *)
(* Part III: the ship counter (package main with calculateShips): the      *)
(* function applied to a battle field given as a one-dimensional slice.    *)
(*                                                                         *)
(* Part IV: design_patterns/cached_repo/main.go, CachedRepository over the *)
(* mockDBRepository: concurrent Get, MGet, Set and Del calls, each in the  *)
(* steps its locks make atomic.                                            *)
(*                                                                         *)
(* Part V: the pipeline (package main with managerImpl.Manage): the        *)
(* goroutines of the errgroup, one per record, and the manager.            *)
(***************************************************************************)
EXTENDS Integers, Sequences, FiniteSets, TLC

----------------------------------------------------------------------------
(* Program constants (unit of time: 500ms).                                *)

maxAttempts == 3

retryInterval == 1

totalTimeout == 4

\* mockHost.DoQuery: time.After(1 * time.Second) of a slow host
slowDelay == 2

\* mockHost.DoQuery: h.flakyCounter < 3
flakyThreshold == 3

----------------------------------------------------------------------------
(* Bounds of the model.                                                    *)

\* largest number of replicas handed to DistributedQuery
MaxReplicas == 2

\* largest finite latency (in units) of one call of a scripted replica
MaxLatency == 1

----------------------------------------------------------------------------
(* Values.                                                                 *)

NoErr == "nil"
ErrNotFound == "not found"
ErrTemporary == "temporary connection error"
ErrCanceled == "context canceled"
ErrDeadline == "context deadline exceeded"
ErrAllFailed == "all replicas failed after multiple retries"
ErrTimedOut == "query timed out after 2s"

\* the empty string
Empty == 0

\* type Response struct { Message; Err; Host }: Host is never set by a worker
Response(msg, err) == [Message |-> msg, Err |-> err]

\* the two values DoQuery returns
Outcome(resp, err) == [resp |-> resp, err |-> err]

(***************************************************************************)
(* Replicas (implementations of DatabaseHost).  A replica is                *)
(*  - "any": an arbitrary implementation supplied by the caller: each call  *)
(*    returns when and what it likes;                                       *)
(*  - "scripted": a deterministic implementation: it fails transiently      *)
(*    `fails` times, then answers `final`; each call takes `latency` units  *)
(*    or, when `hangs`, never returns by itself; `obeys` says whether a     *)
(*    call in flight returns the context's error once the context is done;  *)
(*  - "mock": the mockHost of the source.                                   *)
(***************************************************************************)
Host(k, fl, nf, sl, fs, fin, lat, hg, ob) ==
  [ kind |-> k, flaky |-> fl, notFound |-> nf, slow |-> sl,
    fails |-> fs, final |-> fin, latency |-> lat, hangs |-> hg, obeys |-> ob ]

AnyHost == Host("any", FALSE, FALSE, FALSE, 0, "ok", 0, FALSE, TRUE)

Scripted(fs, fin, lat, hg, ob) == Host("scripted", FALSE, FALSE, FALSE, fs, fin, lat, hg, ob)

\* &mockHost{name: ..., flaky: fl, notFound: nf, slow: sl}
Mock(fl, nf, sl) == Host("mock", fl, nf, sl, 0, "ok", 0, FALSE, TRUE)

\* the hosts whose first call answers at the very moment the deadline is reached
DeadlineHosts == { Scripted(0, fin, totalTimeout, FALSE, TRUE) : fin \in {"ok", "nf"} }

\* one representative of the scripted hosts that behave the same
ScriptedHosts ==
  { Scripted(fs, fin, lat, FALSE, TRUE) :
      fs \in 0..maxAttempts, fin \in {"ok", "nf"}, lat \in 0..MaxLatency }
  \cup { Scripted(0, "ok", 0, TRUE, ob) : ob \in BOOLEAN }
  \cup DeadlineHosts

\* an order on the scripted hosts
Rank(h) ==
  (((h.fails * 2 + (IF h.final = "ok" THEN 0 ELSE 1)) * (MaxLatency + totalTimeout + 1)
      + h.latency) * 2
     + (IF h.hangs THEN 1 ELSE 0)) * 2 + (IF h.obeys THEN 1 ELSE 0)

RECURSIVE SeqsUpTo(_, _)
SeqsUpTo(S, n) ==
  IF n = 0 THEN { << >> }
  ELSE LET shorter == SeqsUpTo(S, n - 1)
       IN  shorter \cup { Append(s, x) : s \in { t \in shorter : Len(t) = n - 1 }, x \in S }

\* the replicas of the four scenarios of main
Scenario1 == << Mock(TRUE, FALSE, FALSE), Mock(FALSE, FALSE, FALSE), Mock(FALSE, FALSE, TRUE) >>
Scenario2 == << Mock(TRUE, FALSE, FALSE), Mock(TRUE, FALSE, FALSE) >>
Scenario3 == << Mock(FALSE, FALSE, TRUE), Mock(FALSE, FALSE, TRUE) >>
Scenario4 == << Mock(FALSE, TRUE, FALSE), Mock(FALSE, FALSE, FALSE) >>

Scenarios == { Scenario1, Scenario2, Scenario3, Scenario4 }

\* arbitrary replicas: every list of up to MaxReplicas of them
AnyLists == SeqsUpTo({AnyHost}, MaxReplicas)

\* deterministic replicas: the scenarios of main, and the lists of scripted
\* hosts (the workers are alike, so one order of each list is enough)
TimedLists ==
  Scenarios \cup
  { l \in SeqsUpTo(ScriptedHosts, MaxReplicas) :
      \A i \in 1..(Len(l) - 1) : Rank(l[i]) <= Rank(l[i + 1]) }

----------------------------------------------------------------------------
VARIABLES
  replicas,      \* the replicas argument of DistributedQuery
  deadline,      \* time left until the timer of ctx fires
  ctxErr,        \* ctx.Err()
  resCh,         \* the buffer of resCh
  chClosed,      \* resCh is closed
  wg,            \* the WaitGroup counter
  wpc,           \* worker -> "loop" | "invoke" | "call" | "send" | "backoff" | "done"
  attempt,       \* worker -> i of the for loop
  timer,         \* worker -> time left until its call or its time.After ends
  pending,       \* worker -> resp, err of its last DoQuery call
  flakyCounter,  \* worker -> mockHost.flakyCounter of its replica
  jpc,           \* the janitor: "wait" | "done"
  cpc,           \* the collector: "select" | "parked" | "woken" | "done"
  cwake,         \* the case that woke the parked collector
  results,       \* what DistributedQuery returned, in order
  calls,         \* history: worker -> the outcomes of its DoQuery calls, in order
  sent,          \* history: the Responses sent on resCh, with their workers
  seen           \* history: the cases the collector has handled, in order

vars == << replicas, deadline, ctxErr, resCh, chClosed, wg, wpc, attempt, timer, pending,
           flakyCounter, jpc, cpc, cwake, results, calls, sent, seen >>

----------------------------------------------------------------------------
(* The state of the other programs, which DistributedQuery leaves alone.   *)

VARIABLES
  topics,        \* PubSubManager.topics: topic -> the channels of its subscribers
  chans,         \* the channels made by Subscribe: id -> its buffer and whether it is closed
  deliveries,    \* Publish call -> the delivery goroutine it started
  panicked,      \* the runtime panic that has ended the process, if any
  received,      \* history: channel -> what its consumer has received, in order
  enqueued,      \* history: the (message, channel) pairs sent
  dropped        \* history: the (message, channel) pairs skipped by the default case

psVars == << topics, chans, deliveries, panicked, received, enqueued, dropped >>

VARIABLES
  battleField,   \* the battleField argument of calculateShips
  width,         \* its width argument
  shipsRet       \* what calculateShips has returned, once called

shipsVars == << battleField, width, shipsRet >>

VARIABLES
  cache,         \* CachedRepository.cache: key -> value, or NoEntry
  data,          \* mockDBRepository.data: key -> value, or NoEntry
  ops,           \* the calls made on the CachedRepository, each with its position
  deleted,       \* history: key -> the last write of the key to return was a Del
  overlapped     \* history: some call began while another was in flight

crVars == << cache, data, ops, deleted, overlapped >>

VARIABLES
  dataList,      \* what reader.Read() returned: the records, each with its failing processor
  gpc,           \* record -> its goroutine: "run" | "send" | "failed" | "done"
  applied,       \* record -> the processors applied to it so far
  dataChan,      \* the buffer of dataChan
  groupErr,      \* the error g.Wait() will return: the first one returned
  mpc,           \* Manage: "wait" | "collect" | "write" | "done"
  processedData, \* what Manage has collected from dataChan
  written        \* the arguments of the writer.Write calls

etlVars == << dataList, gpc, applied, dataChan, groupErr, mpc, processedData, written >>

others == << psVars, shipsVars, crVars, etlVars >>

NoPanic == "none"

\* NewPubSubManager(): no topic, no channel, nothing published
NewPubSubManager ==
  /\ topics = << >>
  /\ chans = << >>
  /\ deliveries = << >>
  /\ panicked = NoPanic
  /\ received = << >>
  /\ enqueued = {}
  /\ dropped = {}

NotCalled == [ called |-> FALSE, count |-> 0, err |-> "nil" ]

\* calculateShips is not in use
NoField ==
  /\ battleField = << >>
  /\ width = 1
  /\ shipsRet = NotCalled

\* no CachedRepository is in use
NoRepo ==
  /\ cache = << >>
  /\ data = << >>
  /\ ops = << >>
  /\ deleted = << >>
  /\ overlapped = FALSE

\* no pipeline is in use
NoPipeline ==
  /\ dataList = << >>
  /\ gpc = << >>
  /\ applied = << >>
  /\ dataChan = << >>
  /\ groupErr = 0
  /\ mpc = "done"
  /\ processedData = << >>
  /\ written = << >>

\* the programs other than DistributedQuery, PubSubManager and calculateShips are idle
Idle == NoRepo /\ NoPipeline

Workers == 1..Len(replicas)

\* SelectCases of a select without case <-ctx.Done()
SelectCasesNoDeadline == {"recv", "closed"}

\* the cases of the select: case resp, ok := <-resCh (a value, or the channel
\* closed and drained) and case <-ctx.Done()
SelectCases == {"recv", "closed", "ctx"}

NoWake == [ case |-> "none", resp |-> Response(Empty, NoErr) ]

\* the payload "result from <name>" of replica w
Payload(w) == w

\* what a scripted host returns next to an error: never a payload of a success
Junk(w) == 0 - w

\* the state once DistributedQuery has started its goroutines and enters its loop
Started(list) ==
  /\ replicas = list
  /\ deadline = totalTimeout
  /\ ctxErr = NoErr
  /\ resCh = << >>
  /\ chClosed = FALSE
  /\ wg = Len(replicas)
  /\ wpc = [ w \in Workers |-> "loop" ]
  /\ attempt = [ w \in Workers |-> 0 ]
  /\ timer = [ w \in Workers |-> 0 ]
  /\ pending = [ w \in Workers |-> Outcome(Empty, NoErr) ]
  /\ flakyCounter = [ w \in Workers |-> 0 ]
  /\ jpc = "wait"
  /\ cpc = "select"
  /\ cwake = NoWake
  /\ results = << >>
  /\ calls = [ w \in Workers |-> << >> ]
  /\ sent = {}
  /\ seen = << >>

Init == NewPubSubManager /\ NoField /\ Idle /\ \E list \in AnyLists : Started(list)

InitTimed == NewPubSubManager /\ NoField /\ Idle /\ \E list \in TimedLists : Started(list)

----------------------------------------------------------------------------
(* DatabaseHost.DoQuery.  `branch` is how the call ends: "time" when its   *)
(* own delay has passed, "ctx" when it gives up because ctx is done.       *)

CallDelay(h) == IF h.kind = "mock" THEN (IF h.slow THEN slowDelay ELSE 0) ELSE h.latency

CallHangs(h) == h.kind = "scripted" /\ h.hangs

CallObeys(h) == IF h.kind = "mock" THEN h.slow ELSE h.obeys

\* MockDoQuery, of a flaky host that answers on its first call already
MockDoQueryNeverFlaky(h, w, counter, branch, cerr) ==
  IF h.slow /\ branch = "ctx"
    THEN [ out |-> Outcome(Empty, cerr), counter |-> counter ]
  ELSE IF h.notFound
    THEN [ out |-> Outcome(Empty, ErrNotFound), counter |-> counter ]
  ELSE [ out |-> Outcome(Payload(w), NoErr),
         counter |-> IF h.flaky THEN counter + 1 ELSE counter ]

\* MockDoQuery, with the increment of flakyCounter lost
MockDoQueryLostUpdate(h, w, counter, branch, cerr) ==
  IF h.slow /\ branch = "ctx"
    THEN [ out |-> Outcome(Empty, cerr), counter |-> counter ]
  ELSE IF h.notFound
    THEN [ out |-> Outcome(Empty, ErrNotFound), counter |-> counter ]
  ELSE IF h.flaky
    THEN IF counter + 1 < flakyThreshold
           THEN [ out |-> Outcome(Empty, ErrTemporary), counter |-> counter ]
           ELSE [ out |-> Outcome(Payload(w), NoErr), counter |-> counter ]
  ELSE [ out |-> Outcome(Payload(w), NoErr), counter |-> counter ]

\* mockHost.DoQuery: the outcome and the new flakyCounter
MockDoQuery(h, w, counter, branch, cerr) ==
  IF h.slow /\ branch = "ctx"
    THEN [ out |-> Outcome(Empty, cerr), counter |-> counter ]
  ELSE IF h.notFound
    THEN [ out |-> Outcome(Empty, ErrNotFound), counter |-> counter ]
  ELSE IF h.flaky
    THEN IF counter + 1 < flakyThreshold
           THEN [ out |-> Outcome(Empty, ErrTemporary), counter |-> counter + 1 ]
           ELSE [ out |-> Outcome(Payload(w), NoErr), counter |-> counter + 1 ]
  ELSE [ out |-> Outcome(Payload(w), NoErr), counter |-> counter ]

\* a caller-supplied host: its k-th call
ScriptedDoQuery(h, w, k, branch, cerr) ==
  IF branch = "ctx" THEN Outcome(Junk(w), cerr)
  ELSE IF k <= h.fails THEN Outcome(Junk(w), ErrTemporary)
  ELSE IF h.final = "ok" THEN Outcome(Payload(w), NoErr)
  ELSE Outcome(Junk(w), ErrNotFound)

\* an arbitrary host: whatever a call can return
AnyDoQuery(w, branch, cerr) ==
  IF branch = "ctx" THEN { Outcome(Junk(w), cerr) }
  ELSE { Outcome(Payload(w), NoErr), Outcome(Junk(w), ErrNotFound),
         Outcome(Junk(w), ErrTemporary) }

\* the outcomes of the call of worker w ending by `branch`, with the new flakyCounter
DoQuery(w, branch) ==
  LET h == replicas[w]
  IN  IF h.kind = "mock"
        THEN { MockDoQuery(h, w, flakyCounter[w], branch, ctxErr) }
      ELSE IF h.kind = "scripted"
        THEN { [ out |-> ScriptedDoQuery(h, w, Len(calls[w]) + 1, branch, ctxErr),
                 counter |-> flakyCounter[w] ] }
      ELSE { [ out |-> o, counter |-> flakyCounter[w] ] : o \in AnyDoQuery(w, branch, ctxErr) }

\* the ways the call in flight of worker w can end now
ReturnBranches(w) ==
  { b \in {"time", "ctx"} :
      \/ b = "time" /\ ~CallHangs(replicas[w]) /\ timer[w] = 0
      \/ b = "ctx" /\ CallObeys(replicas[w]) /\ ctxErr # NoErr }

----------------------------------------------------------------------------
(* The worker goroutine of replica w.                                      *)

\* defer wg.Done() of a returning worker
WorkerExit(w) ==
  /\ wpc' = [ wpc EXCEPT ![w] = "done" ]
  /\ wg' = wg - 1

\* LoopContinues, one attempt short
LoopContinuesOneShort(i) == i < maxAttempts - 1

\* LoopContinues, with i <= maxAttempts
LoopContinuesOneMore(i) == i <= maxAttempts

\* the loop condition i < maxAttempts
LoopContinues(i) == i < maxAttempts

\* Cancelled, of a worker that does not look at the context before an attempt
CancelledNever(err) == FALSE

\* if ctx.Err() != nil { return }
Cancelled(err) == err # NoErr

\* for i := 0; i < maxAttempts; i++ { if ctx.Err() != nil { return } ...
WorkerLoop(w) ==
  /\ wpc[w] = "loop"
  /\ IF LoopContinues(attempt[w]) /\ ~Cancelled(ctxErr)
       THEN wpc' = [ wpc EXCEPT ![w] = "invoke" ] /\ wg' = wg
       ELSE WorkerExit(w)
  /\ UNCHANGED << others, replicas, deadline, ctxErr, resCh, chClosed, attempt, timer, pending,
                  flakyCounter, jpc, cpc, cwake, results, calls, sent, seen >>

\* rep.DoQuery(ctx, query) is entered
WorkerInvoke(w) ==
  /\ wpc[w] = "invoke"
  /\ wpc' = [ wpc EXCEPT ![w] = "call" ]
  /\ timer' = [ timer EXCEPT ![w] = CallDelay(replicas[w]) ]
  /\ UNCHANGED << others, replicas, deadline, ctxErr, resCh, chClosed, wg, attempt, pending,
                  flakyCounter, jpc, cpc, cwake, results, calls, sent, seen >>

\* WorkerEmits, reporting every outcome
WorkerEmitsAll(err) == TRUE

\* WorkerEmits, retrying after a not-found outcome like after any other error
WorkerEmitsOnlySuccess(err) == err = NoErr

\* if err == nil || errors.Is(err, ErrNotFound): the outcomes a worker reports
WorkerEmits(err) == err = NoErr \/ err = ErrNotFound

\* resp, err := rep.DoQuery(ctx, query) returns
WorkerReturn(w) ==
  /\ wpc[w] = "call"
  /\ \E b \in ReturnBranches(w) :
       \E r \in DoQuery(w, b) :
           /\ pending' = [ pending EXCEPT ![w] = r.out ]
           /\ flakyCounter' = [ flakyCounter EXCEPT ![w] = r.counter ]
           /\ calls' = [ calls EXCEPT ![w] = Append(@, r.out) ]
           /\ IF WorkerEmits(r.out.err)
                THEN wpc' = [ wpc EXCEPT ![w] = "send" ] /\ timer' = timer
                ELSE /\ wpc' = [ wpc EXCEPT ![w] = "backoff" ]
                     /\ timer' = [ timer EXCEPT ![w] = retryInterval ]
  /\ UNCHANGED << others, replicas, deadline, ctxErr, resCh, chClosed, wg, attempt,
                  jpc, cpc, cwake, results, sent, seen >>

\* ResponseOf, leaving Message unset
ResponseOfNoMessage(out) == Response(Empty, out.err)

\* Response{Message: resp, Err: err}
ResponseOf(out) == Response(out.resp, out.err)

\* ResChCap, of an unbuffered channel
ResChCapUnbuffered(reps) == 0

\* resCh := make(chan Response, len(replicas))
ResChCap(reps) == Len(reps)

\* resCh <- Response{Message: resp, Err: err}; return
WorkerSend(w) ==
  /\ wpc[w] = "send"
  /\ LET m == ResponseOf(pending[w])
     IN  /\ IF cpc = "parked" /\ "recv" \in SelectCases
              THEN \* handed to the receiver waiting in the select
                   /\ cpc' = "woken"
                   /\ cwake' = [ case |-> "recv", resp |-> m ]
                   /\ resCh' = resCh
              ELSE /\ Len(resCh) < ResChCap(replicas)
                   /\ resCh' = Append(resCh, m)
                   /\ UNCHANGED << cpc, cwake >>
         /\ sent' = sent \cup { [ worker |-> w, resp |-> m ] }
  /\ WorkerExit(w)
  /\ UNCHANGED << others, replicas, deadline, ctxErr, chClosed, attempt, timer, pending,
                  flakyCounter, jpc, results, calls, seen >>

\* select { case <-time.After(retryInterval): continue; case <-ctx.Done(): return }
WorkerBackoff(w) ==
  /\ wpc[w] = "backoff"
  /\ \/ /\ timer[w] = 0
        /\ wpc' = [ wpc EXCEPT ![w] = "loop" ]
        /\ attempt' = [ attempt EXCEPT ![w] = @ + 1 ]
        /\ wg' = wg
     \/ /\ ctxErr # NoErr
        /\ WorkerExit(w)
        /\ attempt' = attempt
  /\ UNCHANGED << others, replicas, deadline, ctxErr, resCh, chClosed, timer, pending,
                  flakyCounter, jpc, cpc, cwake, results, calls, sent, seen >>

----------------------------------------------------------------------------
(* The janitor: go func() { wg.Wait(); close(resCh) }()                    *)

\* WaitGroupDone, not waiting for the last worker
WaitGroupDoneEarly(n) == n <= 1

\* WaitGroupDone, returning only after some worker has called Done
WaitGroupDoneAfterWork(n) == n = 0 /\ Workers # {}

\* wg.Wait() returns
WaitGroupDone(n) == n = 0

Janitor ==
  /\ jpc = "wait"
  /\ WaitGroupDone(wg)
  /\ jpc' = "done"
  /\ chClosed' = TRUE
  /\ IF cpc = "parked" /\ "closed" \in SelectCases
       THEN cpc' = "woken" /\ cwake' = [ case |-> "closed", resp |-> Response(Empty, NoErr) ]
       ELSE UNCHANGED << cpc, cwake >>
  /\ UNCHANGED << others, replicas, deadline, ctxErr, resCh, wg, wpc, attempt, timer, pending,
                  flakyCounter, results, calls, sent, seen >>

----------------------------------------------------------------------------
(* The context: context.WithTimeout(context.Background(), totalTimeout).   *)

\* Cancel, of a cancel function that does nothing
CancelNoop(err) == err

\* cancel(): the first cause of cancellation stays
Cancel(err) == IF err = NoErr THEN ErrCanceled ELSE err

\* the timer of the context fires
DeadlineFire ==
  /\ ctxErr = NoErr
  /\ deadline = 0
  /\ ctxErr' = ErrDeadline
  /\ IF cpc = "parked" /\ "ctx" \in SelectCases
       THEN cpc' = "woken" /\ cwake' = [ case |-> "ctx", resp |-> Response(Empty, NoErr) ]
       ELSE UNCHANGED << cpc, cwake >>
  /\ UNCHANGED << others, replicas, deadline, resCh, chClosed, wg, wpc, attempt, timer, pending,
                  flakyCounter, jpc, results, calls, sent, seen >>

----------------------------------------------------------------------------
(* The collector: the for { select { ... } } loop of the caller.           *)

Result(payload, err) == [ payload |-> payload, err |-> err ]

Returns(res) == [ returns |-> TRUE, result |-> res ]

Continues == [ returns |-> FALSE, result |-> Result(Empty, NoErr) ]

\* ReadyCases, of a channel whose receivers see the close before the values
\* still in its buffer
ReadyCasesCloseFirst ==
  { c \in SelectCases :
      \/ c = "recv" /\ resCh # << >> /\ ~chClosed
      \/ c = "closed" /\ chClosed
      \/ c = "ctx" /\ ctxErr # NoErr }

\* the communications of the select that can proceed
ReadyCases ==
  { c \in SelectCases :
      \/ c = "recv" /\ resCh # << >>
      \/ c = "closed" /\ resCh = << >> /\ chClosed
      \/ c = "ctx" /\ ctxErr # NoErr }

\* Decide, returning whatever the first response holds
DecideAnyResponse(case, resp) ==
  IF case = "recv" THEN Returns(Result(resp.Message, resp.Err))
  ELSE IF case = "closed" THEN Returns(Result(Empty, ErrAllFailed))
  ELSE Returns(Result(Empty, ErrTimedOut))

\* Decide, taking a not-found response for an answer
DecideNotFoundAsSuccess(case, resp) ==
  IF case = "recv"
    THEN IF resp.Err = NoErr \/ resp.Err = ErrNotFound
           THEN Returns(Result(resp.Message, NoErr))
           ELSE Continues
  ELSE IF case = "closed" THEN Returns(Result(Empty, ErrAllFailed))
  ELSE Returns(Result(Empty, ErrTimedOut))

\* Decide, going on after a success instead of returning it
DecideIgnoresSuccess(case, resp) ==
  IF case = "recv" THEN Continues
  ELSE IF case = "closed" THEN Returns(Result(Empty, ErrAllFailed))
  ELSE Returns(Result(Empty, ErrTimedOut))

\* Decide, giving up at the first not-found response
DecideNotFoundFails(case, resp) ==
  IF case = "recv"
    THEN IF resp.Err = NoErr THEN Returns(Result(resp.Message, NoErr))
         ELSE Returns(Result(Empty, ErrAllFailed))
  ELSE IF case = "closed" THEN Returns(Result(Empty, ErrAllFailed))
  ELSE Returns(Result(Empty, ErrTimedOut))

\* Decide, with the two error messages exchanged
DecideErrorsSwapped(case, resp) ==
  IF case = "recv"
    THEN IF resp.Err = NoErr THEN Returns(Result(resp.Message, NoErr))
         ELSE Continues
  ELSE IF case = "closed" THEN Returns(Result(Empty, ErrTimedOut))
  ELSE Returns(Result(Empty, ErrAllFailed))

\* Decide, returning the error of a response that is not a success
DecidePropagatesError(case, resp) ==
  IF case = "recv"
    THEN IF resp.Err = NoErr THEN Returns(Result(resp.Message, NoErr))
         ELSE Returns(Result(Empty, resp.Err))
  ELSE IF case = "closed" THEN Returns(Result(Empty, ErrAllFailed))
  ELSE Returns(Result(Empty, ErrTimedOut))

\* the body of the chosen case
Decide(case, resp) ==
  IF case = "recv"
    THEN IF resp.Err = NoErr THEN Returns(Result(resp.Message, NoErr))
         ELSE Continues
  ELSE IF case = "closed" THEN Returns(Result(Empty, ErrAllFailed))
  ELSE Returns(Result(Empty, ErrTimedOut))

\* Apply, calling cancel() after every case and not only when returning
ApplyCancelsAlways(d) ==
  /\ ctxErr' = Cancel(ctxErr)
  /\ IF d.returns
       THEN results' = Append(results, d.result) /\ cpc' = "done"
       ELSE results' = results /\ cpc' = "select"

\* Apply, going on with the loop after the result instead of returning
ApplyKeepsLooping(d) ==
  /\ cpc' = "select"
  /\ IF d.returns
       THEN results' = Append(results, d.result) /\ ctxErr' = Cancel(ctxErr)
       ELSE UNCHANGED << results, ctxErr >>

\* return (after cancel() and with the deferred cancel()), or the next iteration
Apply(d) ==
  IF d.returns
    THEN /\ results' = Append(results, d.result)
         /\ cpc' = "done"
         /\ ctxErr' = Cancel(ctxErr)
    ELSE /\ cpc' = "select"
         /\ UNCHANGED << results, ctxErr >>

\* the select is entered: a ready case is chosen, or the goroutine parks
CollectorSelect ==
  /\ cpc = "select"
  /\ IF ReadyCases = {}
       THEN /\ cpc' = "parked"
            /\ UNCHANGED << resCh, results, ctxErr, seen >>
       ELSE \E c \in ReadyCases :
              LET m == IF c = "recv" THEN Head(resCh) ELSE Response(Empty, NoErr)
              IN  /\ resCh' = IF c = "recv" THEN Tail(resCh) ELSE resCh
                  /\ seen' = Append(seen, [ case |-> c, resp |-> m ])
                  /\ Apply(Decide(c, m))
  /\ UNCHANGED << others, replicas, deadline, chClosed, wg, wpc, attempt, timer, pending,
                  flakyCounter, jpc, cwake, calls, sent >>

\* the parked select resumes with the case that woke it
CollectorWake ==
  /\ cpc = "woken"
  /\ Apply(Decide(cwake.case, cwake.resp))
  /\ seen' = Append(seen, cwake)
  /\ cwake' = NoWake
  /\ UNCHANGED << others, replicas, deadline, resCh, chClosed, wg, wpc, attempt, timer, pending,
                  flakyCounter, jpc, calls, sent >>

----------------------------------------------------------------------------
(* Time.                                                                   *)

\* worker w waits for time to pass
Waits(w) ==
  \/ wpc[w] = "call" /\ ~CallHangs(replicas[w]) /\ timer[w] > 0
  \/ wpc[w] = "backoff" /\ timer[w] > 0

Dec(n) == IF n > 0 THEN n - 1 ELSE 0

\* one unit of time passes; the timer of the context fires on time
Advance ==
  /\ ~(ctxErr = NoErr /\ deadline = 0)
  /\ (ctxErr = NoErr) \/ (\E w \in Workers : Waits(w))
  /\ deadline' = IF ctxErr = NoErr THEN Dec(deadline) ELSE deadline
  /\ timer' = [ w \in Workers |-> IF Waits(w) THEN Dec(timer[w]) ELSE timer[w] ]
  /\ UNCHANGED << others, replicas, ctxErr, resCh, chClosed, wg, wpc, attempt, pending,
                  flakyCounter, jpc, cpc, cwake, results, calls, sent, seen >>

\* some goroutine can take a step without waiting
Busy ==
  \/ cpc \in {"select", "woken"}
  \/ jpc = "wait" /\ WaitGroupDone(wg)
  \/ ctxErr = NoErr /\ deadline = 0
  \/ \E w \in Workers :
       \/ wpc[w] \in {"loop", "invoke", "send"}
       \/ wpc[w] = "call" /\ ReturnBranches(w) # {}
       \/ wpc[w] = "backoff" /\ (timer[w] = 0 \/ ctxErr # NoErr)

\* time passes only when every goroutine waits (the steps take no time)
TickIdle == ~Busy /\ Advance

\* the backoff of worker w has lasted retryInterval, whatever the others did meanwhile
Expire(w) ==
  /\ wpc[w] = "backoff"
  /\ timer[w] > 0
  /\ timer' = [ timer EXCEPT ![w] = 0 ]
  /\ UNCHANGED << others, replicas, deadline, ctxErr, resCh, chClosed, wg, wpc, attempt, pending,
                  flakyCounter, jpc, cpc, cwake, results, calls, sent, seen >>

\* totalTimeout has passed since the start, whatever the goroutines did meanwhile
ExpireDeadline ==
  /\ ctxErr = NoErr
  /\ deadline > 0
  /\ deadline' = 0
  /\ UNCHANGED << others, replicas, ctxErr, resCh, chClosed, wg, wpc, attempt, timer, pending,
                  flakyCounter, jpc, cpc, cwake, results, calls, sent, seen >>

----------------------------------------------------------------------------
Step ==
  \/ \E w \in Workers : WorkerLoop(w)
  \/ \E w \in Workers : WorkerInvoke(w)
  \/ \E w \in Workers : WorkerReturn(w)
  \/ \E w \in Workers : WorkerSend(w)
  \/ \E w \in Workers : WorkerBackoff(w)
  \/ Janitor
  \/ DeadlineFire
  \/ CollectorSelect
  \/ CollectorWake

Next ==
  \/ Step
  \/ \E w \in Workers : Expire(w)
  \/ ExpireDeadline

(***************************************************************************)
(* Arbitrary replicas under every interleaving of the workers, the         *)
(* janitor, the collector and the timers: a goroutine may take any time    *)
(* for a step and a call any time to return, so a timer may expire at any  *)
(* moment relative to the steps of the others.                             *)
(***************************************************************************)
Spec == Init /\ [][Next]_vars

NextTimed == Step \/ TickIdle

(***************************************************************************)
(* Deterministic replicas with the durations of the source: a call lasts   *)
(* its latency, a backoff retryInterval, the context totalTimeout, and the *)
(* steps of the goroutines take no time.                                   *)
(***************************************************************************)
TimedSpec == InitTimed /\ [][NextTimed]_vars

(***************************************************************************)
(* The runtime schedules a runnable collector, and the timer of the        *)
(* context fires once totalTimeout has passed; nothing is assumed of the   *)
(* workers, whose replica calls may never return.                          *)
(***************************************************************************)
LiveSpec ==
  /\ Spec
  /\ WF_vars(CollectorSelect)
  /\ WF_vars(CollectorWake)
  /\ WF_vars(ExpireDeadline)
  /\ WF_vars(DeadlineFire)

----------------------------------------------------------------------------
(* Properties of DistributedQuery.                                         *)

\* DistributedQuery has returned
Returned == cpc = "done"

\* the Dispatch Results
Success(p) == Result(p, NoErr)
AllFailed == Result(Empty, ErrAllFailed)
TimedOut == Result(Empty, ErrTimedOut)

\* worker w had a call return payload p with a nil error
Succeeded(w, p) == \E k \in 1..Len(calls[w]) : calls[w][k] = Outcome(p, NoErr)

(* C1: in every interleaving the call produces at most one Dispatch Result  *)
(* (none before it returns, one after), and that result is Success with a  *)
(* payload and no error, or AllFailed, or TimedOut, the errors with an      *)
(* empty payload.                                                           *)
C1_OneResult ==
  /\ Len(results) = (IF Returned THEN 1 ELSE 0)
  /\ \A i \in 1..Len(results) :
       \/ results[i].err = NoErr
       \/ results[i] = AllFailed
       \/ results[i] = TimedOut

\* the call has returned a Success while another outcome lies unread in resCh
C1_Witness ==
  /\ Returned
  /\ results[1].err = NoErr
  /\ resCh # << >>

(* C2: every call eventually returns, whatever the replicas do, also when   *)
(* their calls never return.                                                *)
C2_EventuallyReturns == <>Returned

\* the call has returned TimedOut while every replica call is still in flight
C2_Witness ==
  /\ Returned
  /\ results[1] = TimedOut
  /\ Workers # {}
  /\ \A w \in Workers : wpc[w] = "call"

(* C3: a Success carries the payload that a DoQuery call of one of the      *)
(* replicas returned with a nil error during this call.                     *)
C3_PayloadFromSuccess ==
  \A i \in 1..Len(results) :
    results[i].err = NoErr => \E w \in Workers : Succeeded(w, results[i].payload)

\* a Success is returned after the collector has received a not-found response
C3_Witness ==
  /\ Returned
  /\ results[1].err = NoErr
  /\ \E j \in 1..Len(seen) : seen[j].case = "recv" /\ seen[j].resp.Err = ErrNotFound

----------------------------------------------------------------------------
(* What a deterministic replica does, read off its description.            *)

\* the transient failures of host h before its answer
FailuresFirst(h) ==
  IF h.kind = "mock" THEN (IF h.flaky /\ ~h.notFound THEN flakyThreshold - 1 ELSE 0)
  ELSE h.fails

\* host h answers with a success within maxAttempts calls
HostSucceeds(h) ==
  /\ ~CallHangs(h)
  /\ FailuresFirst(h) < maxAttempts
  /\ IF h.kind = "mock" THEN ~h.notFound ELSE h.final = "ok"

\* host h answers not found within maxAttempts calls
HostNotFound(h) ==
  /\ ~CallHangs(h)
  /\ FailuresFirst(h) < maxAttempts
  /\ IF h.kind = "mock" THEN h.notFound ELSE h.final = "nf"

\* every call of host h fails with a transient error
HostAlwaysFails(h) == ~CallHangs(h) /\ FailuresFirst(h) >= maxAttempts

\* when the answer of host h arrives, left alone: its calls and the backoffs between
AnswerTime(h) == (FailuresFirst(h) + 1) * CallDelay(h) + FailuresFirst(h) * retryInterval

\* when the worker of an always failing host gives up, left alone
ExhaustTime(h) == maxAttempts * (CallDelay(h) + retryInterval)

\* replica w is the only one that ever succeeds
SoleWinner(w) ==
  /\ HostSucceeds(replicas[w])
  /\ \A v \in Workers \ {w} : ~HostSucceeds(replicas[v])

\* nothing of worker w was sent on resCh
SentNothing(w) == \A e \in sent : e.worker # w

C5_RaceNeverFails ==
  (Returned /\ Len(replicas) = 2 /\ \A w \in Workers : HostSucceeds(replicas[w]))
    => /\ results[1].err = NoErr
       /\ results[1].payload \in { Payload(w) : w \in Workers }

(* C5, amended: with two replicas that both eventually succeed the call     *)
(* returns the payload that one of them returned, provided the successful   *)
(* attempt of one of them ends before the deadline; it returns an error if  *)
(* both would end only after it.                                            *)
C5_RaceInTime ==
  (Returned /\ Len(replicas) = 2 /\ \A w \in Workers : HostSucceeds(replicas[w]))
    => /\ (\E w \in Workers : AnswerTime(replicas[w]) < totalTimeout)
            => /\ results[1].err = NoErr
               /\ \E w \in Workers : /\ results[1].payload = Payload(w)
                                      /\ Succeeded(w, Payload(w))
       /\ (\A w \in Workers : AnswerTime(replicas[w]) > totalTimeout)
            => results[1].err # NoErr

\* both replicas sent a success and one of them was returned
C5_Witness ==
  /\ Returned
  /\ Len(replicas) = 2
  /\ \A w \in Workers : [ worker |-> w, resp |-> Response(Payload(w), NoErr) ] \in sent
  /\ results[1].err = NoErr

(* C6: the collector never returns on a not-found response; when one        *)
(* replica answers not found and another sends a success before the         *)
(* deadline, the call returns a success ([not found, ok] of scenario 4      *)
(* yields the payload of the ok replica).                                   *)
C6_NotFoundDoesNotDecide ==
  /\ Returned => ~(seen[Len(seen)].case = "recv" /\ seen[Len(seen)].resp.Err = ErrNotFound)
  /\ \A n, w \in Workers :
       ( /\ Returned
         /\ HostNotFound(replicas[n])
         /\ HostSucceeds(replicas[w])
         /\ AnswerTime(replicas[w]) < totalTimeout )
       => /\ results[1].err = NoErr
          /\ \E v \in Workers : Succeeded(v, results[1].payload)
  /\ (Returned /\ replicas = Scenario4) => results[1] = Success(Payload(2))

\* the collector has received a not-found response, gone on, and then returned a success
C6_Witness ==
  /\ Returned
  /\ Len(seen) = 2
  /\ seen[1].case = "recv" /\ seen[1].resp.Err = ErrNotFound
  /\ seen[2].case = "recv" /\ seen[2].resp.Err = NoErr
  /\ results[1] = Success(seen[2].resp.Message)

\* replica w fails maxAttempts - 1 times and then succeeds, and no other has succeeded
LastChance(w) ==
  /\ HostSucceeds(replicas[w])
  /\ FailuresFirst(replicas[w]) = maxAttempts - 1
  /\ \A v \in Workers \ {w} : \A p \in { Payload(v) } : ~Succeeded(v, p)

LastReported(w) ==
  calls[w] # << >> /\ calls[w][Len(calls[w])].err \in {NoErr, ErrNotFound}

(* C8: only a success or a not-found outcome is ever put on resCh, and a    *)
(* worker that ended after maxAttempts transient failures or because of    *)
(* the cancellation has sent nothing.                                       *)
C8_OnlyAnswersSent ==
  /\ \A e \in sent : e.resp.Err \in {NoErr, ErrNotFound}
  /\ \A i \in 1..Len(resCh) : resCh[i].Err \in {NoErr, ErrNotFound}
  /\ \A j \in 1..Len(seen) : seen[j].resp.Err \in {NoErr, ErrNotFound}
  /\ \A w \in Workers : (wpc[w] = "done" /\ ~LastReported(w)) => SentNothing(w)

\* one worker has given up after maxAttempts transient failures, another has
\* stopped on the cancellation during its backoff, and neither has sent anything
C8_Witness ==
  \E w, v \in Workers :
    /\ wpc[w] = "done" /\ wpc[v] = "done"
    /\ Len(calls[w]) = maxAttempts
    /\ \A k \in 1..maxAttempts : calls[w][k].err = ErrTemporary
    /\ Len(calls[v]) = 1 /\ calls[v][1].err = ErrTemporary
    /\ ctxErr # NoErr
    /\ SentNothing(w) /\ SentNothing(v)

\* worker w has made its maxAttempts calls and ended
Exhausted(w) == wpc[w] = "done" /\ Len(calls[w]) = maxAttempts

(* C9, as claimed: with two replicas whose every call fails transiently the *)
(* call returns AllFailed, after both workers have exhausted their retries. *)
C9_AllFail ==
  (Returned /\ Len(replicas) = 2 /\ \A w \in Workers : HostAlwaysFails(replicas[w]))
    => results[1] = AllFailed /\ \A w \in Workers : Exhausted(w)

(* C9, amended: with two replicas whose every call fails transiently the    *)
(* call returns AllFailed, after both workers have exhausted their retries, *)
(* when the maxAttempts calls and backoffs of each end before the deadline; *)
(* when those of one of them would end after it, the call returns TimedOut. *)
C9_AllFailInTime ==
  (Returned /\ Len(replicas) = 2 /\ \A w \in Workers : HostAlwaysFails(replicas[w]))
    => /\ (\A w \in Workers : ExhaustTime(replicas[w]) < totalTimeout)
            => results[1] = AllFailed /\ \A w \in Workers : Exhausted(w)
       /\ (\E w \in Workers : ExhaustTime(replicas[w]) > totalTimeout)
            => results[1] = TimedOut

\* AllFailed is returned once both workers have failed maxAttempts times
C9_Witness ==
  /\ Returned
  /\ Len(replicas) = 2
  /\ \A w \in Workers : HostAlwaysFails(replicas[w]) /\ Exhausted(w)
  /\ results[1] = AllFailed

\* there are replicas, and every call of every one blocks beyond the deadline
AllBlock == Workers # {} /\ \A w \in Workers : CallHangs(replicas[w])

(* C10: with replicas whose calls all block longer than totalTimeout the    *)
(* call returns TimedOut, not AllFailed nor a success, and it does so when  *)
(* the deadline fires: not before, and the collector resumes at once.       *)
C10_BlockedTimesOut ==
  AllBlock =>
    /\ Returned => results[1] = TimedOut /\ deadline = 0 /\ ctxErr = ErrDeadline
    /\ ctxErr # NoErr => cpc \in {"woken", "done"}

\* TimedOut is returned although a blocked call has given up on the cancellation
\* and the channel is closed, while another call still blocks
C10_Witness ==
  /\ AllBlock
  /\ Returned
  /\ results[1] = TimedOut
  /\ \E w, v \in Workers : wpc[w] = "done" /\ wpc[v] = "call"

(* C11: TimedOut is returned only once the deadline has elapsed: the        *)
(* case <-ctx.Done() of the collector is taken only because the timer of    *)
(* the context has fired, never because of a cancel(), which is issued      *)
(* only when the call returns (on the success path, or deferred).           *)
C11_TimedOutOnlyAfterDeadline ==
  /\ \A i \in 1..Len(results) :
       results[i] = TimedOut => deadline = 0 /\ ctxErr = ErrDeadline
  /\ \A j \in 1..Len(seen) :
       seen[j].case = "ctx" => deadline = 0 /\ ctxErr = ErrDeadline
  /\ cwake.case = "ctx" => deadline = 0 /\ ctxErr = ErrDeadline
  /\ ctxErr = ErrCanceled => Returned /\ results[1] # TimedOut

\* TimedOut is returned after the deadline although the collector had gone on
\* after a not-found response and a worker still waits in its backoff
C11_Witness ==
  /\ Returned
  /\ results[1] = TimedOut
  /\ deadline = 0
  /\ \E j \in 1..Len(seen) : seen[j].case = "recv" /\ seen[j].resp.Err = ErrNotFound
  /\ \E w \in Workers : wpc[w] = "backoff"

(* C12: with zero replicas the call starts no worker and returns AllFailed, *)
(* never TimedOut: it returns before any time has passed, without waiting   *)
(* for the deadline.                                                        *)
C12_EmptyAllFailed ==
  replicas = << >> =>
    /\ Workers = {}
    /\ wg = 0
    /\ sent = {}
    /\ ctxErr # ErrDeadline
    /\ Returned => results[1] = AllFailed /\ deadline = totalTimeout

\* with zero replicas the collector has taken the closed channel and returned AllFailed
C12_Witness ==
  /\ replicas = << >>
  /\ Returned
  /\ results = << AllFailed >>
  /\ Len(seen) = 1 /\ seen[1].case = "closed"
  /\ deadline = totalTimeout

\* worker w ended after maxAttempts calls that all failed with a transient error
ExhaustedRetries(w) ==
  /\ wpc[w] = "done"
  /\ Len(calls[w]) = maxAttempts
  /\ \A k \in 1..Len(calls[w]) : calls[w][k].err = ErrTemporary

\* worker w ended by sending a not-found outcome
EmittedNotFound(w) ==
  /\ wpc[w] = "done"
  /\ \E e \in sent : e.worker = w /\ e.resp.Err = ErrNotFound

\* worker w ended because ctx was done: at the check of line 61 or in the select of line 80
StoppedOnCancel(w) ==
  /\ wpc[w] = "done"
  /\ SentNothing(w)
  /\ ~ExhaustedRetries(w)

(* C13, as claimed: whenever AllFailed is returned, every worker has ended  *)
(* by exhausting its maxAttempts attempts or by emitting a not-found        *)
(* outcome, and no replica has succeeded; AllFailed is never returned       *)
(* because workers stopped on the cancellation or the deadline.             *)
C13_AllFailedMeansAllTried ==
  (Returned /\ results[1] = AllFailed) =>
    /\ \A w \in Workers : ExhaustedRetries(w) \/ EmittedNotFound(w)
    /\ \A w \in Workers : \A k \in 1..Len(calls[w]) : calls[w][k].err # NoErr

(* C14, as claimed: if the deadline elapses before the collector has        *)
(* observed any Success outcome, the call returns TimedOut, not AllFailed   *)
(* and not a Success: a collector that enters its select after the timer of *)
(* the context has fired, having received no success so far, returns        *)
(* TimedOut when it returns.                                                *)
C14_DeadlineMeansTimedOut ==
  [][ (cpc = "select" /\ ctxErr = ErrDeadline /\ cpc' = "done")
        => results' = << TimedOut >> ]_vars

(* C15: the only errors the call returns are AllFailed and TimedOut: the    *)
(* not-found sentinel, a transient error of a replica or the cancellation   *)
(* error a replica call returned is never returned to the caller.           *)
C15_OnlyTwoErrors ==
  \A i \in 1..Len(results) :
    /\ results[i].err \in {NoErr, ErrAllFailed, ErrTimedOut}
    /\ results[i].err \notin {ErrNotFound, ErrTemporary, ErrCanceled, ErrDeadline}
    /\ results[i].err # NoErr => results[i].payload = Empty

\* an error is returned after replica calls have returned the not-found
\* sentinel, a transient error and the error of the context
C15_Witness ==
  /\ Returned
  /\ results[1].err # NoErr
  /\ \E w, v \in Workers :
       /\ \E k \in 1..Len(calls[w]) : calls[w][k].err = ErrNotFound
       /\ \E k \in 1..Len(calls[v]) : calls[v][k].err = ErrTemporary
       /\ \E k \in 1..Len(calls[v]) : calls[v][k].err = ErrDeadline

\* the last DoQuery call of worker w returned the not-found sentinel
LastNotFound(w) == calls[w] # << >> /\ calls[w][Len(calls[w])].err = ErrNotFound

(* C16: a replica whose call returned the not-found sentinel is not called  *)
(* again: its worker sends the not-found outcome and ends, and this neither *)
(* cancels the context nor otherwise stops the workers of the other         *)
(* replicas, which go on with their own attempts.                           *)
C16_NotFoundNotRetried ==
  /\ \A w \in Workers :
       /\ \A k \in 1..(Len(calls[w]) - 1) : calls[w][k].err # ErrNotFound
       /\ LastNotFound(w) =>
            /\ wpc[w] \in {"send", "done"}
            /\ wpc[w] = "done" =>
                 [ worker |-> w, resp |-> ResponseOf(calls[w][Len(calls[w])]) ] \in sent
  /\ ctxErr = ErrCanceled => Returned
  /\ (~Returned /\ deadline > 0) => ctxErr = NoErr

\* a worker has ended after its first call returned not found, the collector
\* has read its response, and another worker has since made all its attempts
C16_Witness ==
  /\ ~Returned
  /\ ctxErr = NoErr
  /\ \E w, v \in Workers :
       /\ w # v
       /\ LastNotFound(w) /\ Len(calls[w]) = 1 /\ wpc[w] = "done"
       /\ \E j \in 1..Len(seen) : seen[j].resp.Err = ErrNotFound
       /\ Len(calls[v]) = maxAttempts

(* C17: in one call of DistributedQuery the DoQuery of each replica is      *)
(* invoked at most maxAttempts times, in every interleaving: the call in    *)
(* flight included, and each invocation belongs to an iteration i of the    *)
(* loop with i < maxAttempts.                                               *)
C17_RetryBound ==
  \A w \in Workers :
    /\ Len(calls[w]) + (IF wpc[w] = "call" THEN 1 ELSE 0) <= maxAttempts
    /\ attempt[w] <= maxAttempts
    /\ wpc[w] \in {"invoke", "call", "send", "backoff"} => attempt[w] < maxAttempts
    /\ Len(calls[w]) <= attempt[w] + 1

\* a worker has left its loop by the loop condition after maxAttempts failed
\* calls, while another worker is in its last call
C17_Witness ==
  \E w, v \in Workers :
    /\ wpc[w] = "done" /\ attempt[w] = maxAttempts /\ Len(calls[w]) = maxAttempts
    /\ wpc[v] = "call" /\ Len(calls[v]) = maxAttempts - 1

\* buffer a is the beginning of buffer b
IsPrefix(a, b) == Len(a) <= Len(b) /\ \A i \in 1..Len(a) : a[i] = b[i]

(* C18: once the collector has accepted a Success the result is fixed: no   *)
(* later step (the cancellation, another worker sending a success or a      *)
(* not-found outcome, the janitor closing the channel, the timer) changes   *)
(* the result, and the collector reads nothing more: what is sent           *)
(* afterwards stays in the buffer.                                          *)
C18_SuccessIsFinal ==
  [][ (results # << >> /\ results[1].err = NoErr)
        => /\ results' = results
           /\ seen' = seen
           /\ cpc' = "done"
           /\ IsPrefix(resCh, resCh') ]_vars

\* after the Success of one replica was returned and the context cancelled,
\* the success of another replica lies unread in the buffer
C18_Witness ==
  /\ Returned
  /\ results[1].err = NoErr
  /\ ctxErr = ErrCanceled
  /\ \E v \in Workers :
       /\ Payload(v) # results[1].payload
       /\ wpc[v] = "done"
       /\ resCh = << Response(Payload(v), NoErr) >>

(* C19: on every exit path (Success, AllFailed, TimedOut) the context has   *)
(* been cancelled by the time the call has returned: ctx is done, by        *)
(* cancel() or by its timer, and stays so.                                  *)
C19_ScopeReleased ==
  /\ Returned => ctxErr \in {ErrCanceled, ErrDeadline}
  /\ \A i \in 1..Len(results) :
       /\ results[i].err = NoErr => ctxErr \in {ErrCanceled, ErrDeadline}
       /\ results[i] = AllFailed => ctxErr \in {ErrCanceled, ErrDeadline}
       /\ results[i] = TimedOut => ctxErr = ErrDeadline

\* AllFailed was returned before the timer fired: only the deferred cancel()
\* has released the context
C19_Witness ==
  /\ Returned
  /\ results[1] = AllFailed
  /\ deadline > 0
  /\ ctxErr = ErrCanceled
  /\ Workers # {}

\* the kind of a Dispatch Result
Kind(res) ==
  IF res.err = NoErr THEN "Success"
  ELSE IF res = AllFailed THEN "AllFailed"
  ELSE "TimedOut"

\* when the worker of host h ends, left alone; beyond the deadline if its call hangs
EndTime(h) ==
  IF CallHangs(h) THEN totalTimeout + 1
  ELSE IF HostAlwaysFails(h) THEN ExhaustTime(h)
  ELSE AnswerTime(h)

\* some replica of the list answers with a success before the deadline
EarlySuccess(list) ==
  \E i \in 1..Len(list) : HostSucceeds(list[i]) /\ AnswerTime(list[i]) < totalTimeout

\* no success comes before the deadline, and the worker of some replica ends
\* at the very moment of the deadline
OnDeadline(list) ==
  /\ ~EarlySuccess(list)
  /\ \E i \in 1..Len(list) : EndTime(list[i]) = totalTimeout

\* the kind of result the descriptions of the replicas call for
ExpectedKind(list) ==
  IF EarlySuccess(list) THEN "Success"
  ELSE IF \A i \in 1..Len(list) : EndTime(list[i]) < totalTimeout THEN "AllFailed"
  ELSE "TimedOut"

(* C20, as claimed: with a fixed list of deterministic replicas every run   *)
(* returns the same kind of result (Success, AllFailed or TimedOut),        *)
(* whatever the scheduling: the kind is a function of the list.             *)
C20_SameKind ==
  Returned => Kind(results[1]) = ExpectedKind(replicas)

(* C20, amended: with a fixed list of deterministic replicas every run      *)
(* returns the same kind of result, whatever the scheduling, unless no      *)
(* success comes before the deadline and the worker of some replica ends at *)
(* the moment of the deadline: then the kind depends on the scheduling.     *)
C20_SameKindOffDeadline ==
  (Returned /\ ~OnDeadline(replicas)) => Kind(results[1]) = ExpectedKind(replicas)

\* two replicas that succeed at the same moment: the call returned the
\* payload of the second while the response of the first lies unread
C20_Witness ==
  /\ Returned
  /\ Len(replicas) = 2
  /\ ~OnDeadline(replicas)
  /\ replicas[1] = replicas[2]
  /\ FailuresFirst(replicas[1]) > 0
  /\ results[1] = Success(Payload(2))
  /\ resCh = << Response(Payload(1), NoErr) >>

\* the only replica answers with a success at the moment of the deadline, and
\* the call returned TimedOut
C20_DeadlineLost ==
  /\ Returned
  /\ Len(replicas) = 1
  /\ OnDeadline(replicas)
  /\ HostSucceeds(replicas[1])
  /\ results[1] = TimedOut

\* the only replica answers with a success at the moment of the deadline, and
\* the call returned its payload
C20_DeadlineWon ==
  /\ Returned
  /\ Len(replicas) = 1
  /\ OnDeadline(replicas)
  /\ HostSucceeds(replicas[1])
  /\ results[1].err = NoErr

----------------------------------------------------------------------------
(* The scenarios of main.                                                   *)

(* C21, as claimed: scenario 2 of main, two flaky mock hosts, returns the   *)
(* error 'all replicas failed after multiple retries'.                      *)
C21_Scenario2AllFailed ==
  (replicas = Scenario2 /\ Returned) => results[1] = AllFailed

\* what scenario 2 does return: the payload of one of the two flaky hosts,
\* from its third call, after two backoffs
C21_Scenario2Succeeds ==
  (replicas = Scenario2 /\ Returned) =>
    /\ results[1].err = NoErr
    /\ \E w \in Workers :
         /\ results[1].payload = Payload(w)
         /\ Len(calls[w]) = flakyThreshold
         /\ flakyCounter[w] = flakyThreshold

(* C22, as claimed: scenario 3 of main, two slow mock hosts under the 2s    *)
(* timeout, returns the error 'query timed out after 2s'.                   *)
C22_Scenario3TimedOut ==
  (replicas = Scenario3 /\ Returned) => results[1] = TimedOut

\* what scenario 3 does return: the payload of one of the two slow hosts,
\* from its first call, one second before the deadline
C22_Scenario3Succeeds ==
  (replicas = Scenario3 /\ Returned) =>
    /\ results[1].err = NoErr
    /\ deadline = totalTimeout - slowDelay
    /\ \E w \in Workers : results[1].payload = Payload(w) /\ Len(calls[w]) = 1

(* C23: scenario 1 of main, [flaky, ok, slow], returns the payload of       *)
(* replica 2, the host that succeeds at once on its first call, before the  *)
(* flaky host has made its second call and while the slow call is in        *)
(* flight.                                                                  *)
C23_Scenario1Replica2 ==
  (replicas = Scenario1 /\ Returned) =>
    /\ results[1] = Success(Payload(2))
    /\ calls[2] = << Outcome(Payload(2), NoErr) >>
    /\ deadline = totalTimeout

\* scenario 1 has returned the payload of replica 2 while the flaky host waits
\* in its first backoff and the call of the slow host is in flight
C23_Witness ==
  /\ replicas = Scenario1
  /\ Returned
  /\ results[1] = Success(Payload(2))
  /\ wpc[1] = "backoff" /\ Len(calls[1]) = 1
  /\ wpc[3] = "call"

----------------------------------------------------------------------------
(* The completion channel and the workers.                                  *)

\* the outcomes worker w has put on the completion channel
SentBy(w) == { s \in sent : s.worker = w }

(* C27: a worker sends at most one outcome and is gone once it has sent,    *)
(* so the outcomes ever sent, and those waiting in the completion channel,  *)
(* never exceed the replica count, the capacity of the channel; and a       *)
(* worker that is about to send can always send at once, whether the        *)
(* collector still runs or has returned.                                    *)
C27_SendNeverBlocks ==
  /\ \A w \in Workers :
       /\ Cardinality(SentBy(w)) <= 1
       /\ SentBy(w) # {} => wpc[w] = "done"
       /\ wpc[w] = "send" => ENABLED WorkerSend(w)
  /\ Cardinality(sent) <= Len(replicas)
  /\ Len(resCh) <= Len(replicas)

\* the collector has returned without taking any outcome, and every one of
\* several workers has put its outcome on the channel, now at its capacity
C27_Witness ==
  /\ Returned
  /\ Len(replicas) >= 2
  /\ Len(resCh) = Len(replicas)
  /\ \A w \in Workers : SentBy(w) # {}

\* the close of the completion channel: the step of the janitor, once, with
\* every worker gone
ClosedByJanitor ==
  (chClosed' # chClosed) =>
    /\ ~chClosed
    /\ jpc = "wait" /\ jpc' = "done"
    /\ \A w \in Workers : wpc[w] = "done"

\* a worker sends only on an open channel
SendsOnOpen ==
  \A w \in Workers : (wpc[w] = "send" /\ wpc'[w] # "send") => ~chClosed /\ ~chClosed'

(* C28: the completion channel is closed once, by the janitor, and only     *)
(* when every worker has terminated: while it is closed the janitor is done *)
(* and no worker is left, and no worker sends on the closed channel.        *)
C28_ClosedOnceAfterWorkers ==
  /\ [](chClosed => (jpc = "done" /\ wg = 0 /\ \A w \in Workers : wpc[w] = "done"))
  /\ [](jpc = "done" => chClosed)
  /\ [][ClosedByJanitor /\ SendsOnOpen]_vars

\* the janitor has closed the channel after several workers, one of which
\* has sent its outcome
C28_Witness ==
  /\ chClosed
  /\ jpc = "done"
  /\ Len(replicas) >= 2
  /\ sent # {}

(* C29: AllFailed is returned only when every worker has finished and the   *)
(* completion channel is closed and drained: no worker is then in an        *)
(* attempt, in a backoff or in a replica call.                              *)
C29_AllFailedAfterWorkers ==
  (Returned /\ results[1] = AllFailed) =>
    /\ chClosed
    /\ resCh = << >>
    /\ \A w \in Workers : wpc[w] = "done"

\* AllFailed has been returned for several workers, one of which has used all
\* its attempts
C29_Witness ==
  /\ Returned
  /\ results[1] = AllFailed
  /\ Len(replicas) >= 2
  /\ \E w \in Workers : Len(calls[w]) = maxAttempts

\* worker w enters rep.DoQuery in this step
Invokes(w) == wpc[w] = "invoke" /\ wpc'[w] = "call"

(* C30, as claimed: every DoQuery invocation begins while the scope is not  *)
(* yet cancelled: once the scope is cancelled, by a Success or by the       *)
(* deadline, no worker starts a replica call.                               *)
C30_NoCallAfterCancel ==
  [][ \A w \in Workers : Invokes(w) => ctxErr = NoErr ]_vars

\* worker w passes the check of the context before an attempt
PassesCheck(w) == wpc[w] = "loop" /\ wpc'[w] = "invoke"

\* worker w leaves the head of the loop without an attempt
StopsAtCheck(w) ==
  /\ wpc[w] = "loop" /\ wpc'[w] = "done"
  /\ calls'[w] = calls[w]
  /\ SentBy(w)' = SentBy(w)

(* C30: a worker checks the scope before each attempt: it gets to a replica *)
(* call only from a check that found the scope not cancelled, and a check   *)
(* that finds the scope cancelled ends the worker without a call and        *)
(* without an outcome.                                                      *)
C30_CheckedBeforeCall ==
  [][ \A w \in Workers :
        /\ (wpc'[w] = "call" /\ wpc[w] # "call") => Invokes(w)
        /\ (wpc'[w] = "invoke" /\ wpc[w] # "invoke") => (PassesCheck(w) /\ ctxErr = NoErr)
        /\ (wpc[w] = "loop" /\ wpc'[w] # "loop" /\ ctxErr # NoErr) => StopsAtCheck(w)
    ]_vars

\* a worker has found the scope cancelled at the check before its second
\* attempt and has ended there
C30_Witness ==
  \E w \in Workers :
    /\ wpc[w] = "done"
    /\ ctxErr # NoErr
    /\ attempt[w] = 1
    /\ Len(calls[w]) = 1
    /\ SentBy(w) = {}

----------------------------------------------------------------------------
(* Termination of the goroutines.                                           *)

(***************************************************************************)
(* The runtime schedules every runnable goroutine, every timer fires when  *)
(* its time has passed, and every replica call in flight returns.          *)
(***************************************************************************)
FairSpec ==
  /\ LiveSpec
  /\ WF_vars(Janitor)
  /\ \A i \in 1..MaxReplicas :
       /\ WF_vars(i \in Workers /\ WorkerLoop(i))
       /\ WF_vars(i \in Workers /\ WorkerInvoke(i))
       /\ WF_vars(i \in Workers /\ WorkerReturn(i))
       /\ WF_vars(i \in Workers /\ WorkerSend(i))
       /\ WF_vars(i \in Workers /\ WorkerBackoff(i))
       /\ WF_vars(i \in Workers /\ Expire(i))

\* no goroutine of the call is left: every worker has returned, and the
\* janitor has closed the channel and returned
AllGone ==
  /\ \A w \in Workers : wpc[w] = "done"
  /\ jpc = "done"
  /\ chClosed

\* worker w is on its way into a replica call, or in it
InCall(w) == wpc[w] \in {"invoke", "call"}

\* once the scope is cancelled, a worker gets into no replica call but the
\* one it is entering or has in flight
NoNewCall ==
  ctxErr # NoErr => \A w \in Workers : InCall(w)' => InCall(w)

(* C31: once DistributedQuery has returned or the deadline has elapsed, a   *)
(* worker gets into no replica call other than the one it has in flight,    *)
(* and, every call in flight returning, every worker terminates and the     *)
(* janitor closes the channel and terminates: in the end no goroutine is    *)
(* left, for good.                                                          *)
C31_GoroutinesEnd ==
  /\ [][NoNewCall]_vars
  /\ (Returned \/ ctxErr # NoErr) ~> []AllGone

\* the call has returned and every goroutine is gone, one of the workers
\* having been stopped by the cancellation after a failed call
C31_Witness ==
  /\ Returned
  /\ AllGone
  /\ Len(replicas) >= 2
  /\ \E w \in Workers :
       /\ Len(calls[w]) \in 1..(maxAttempts - 1)
       /\ SentBy(w) = {}

----------------------------------------------------------------------------
(* The backoff.                                                             *)

\* the last call of worker w failed with an error that is retried, and the
\* wait that follows it has not ended by its timer
FailedUnwaited(w) ==
  /\ Len(calls[w]) = attempt[w] + 1
  /\ calls[w][Len(calls[w])].err \notin {NoErr, ErrNotFound}

\* the time that has passed since the start, until ctx is done
Elapsed == totalTimeout - deadline

(* C32: after every failed call that is retried, the one of the last        *)
(* attempt included, the worker is in its backoff wait until retryInterval  *)
(* has passed or ctx is done; so a worker that ends uncancelled without an  *)
(* outcome has made maxAttempts calls and maxAttempts waits, and             *)
(* maxAttempts times the call delay plus retryInterval have passed.         *)
C32_WaitsAfterEveryFailure ==
  \A w \in Workers :
    /\ wpc[w] = "backoff" => FailedUnwaited(w)
    /\ (wpc[w] # "call" /\ FailedUnwaited(w)) =>
         \/ wpc[w] = "backoff"
         \/ wpc[w] = "done" /\ ctxErr # NoErr
    /\ (wpc[w] = "done" /\ SentNothing(w) /\ ctxErr = NoErr) =>
         /\ Len(calls[w]) = maxAttempts
         /\ attempt[w] = maxAttempts
         /\ Elapsed >= ExhaustTime(replicas[w])

\* a worker has ended, uncancelled, after the wait that follows its last
\* failed call, while the worker of a hanging replica keeps the call open
C32_Witness ==
  \E w, v \in Workers :
    /\ wpc[w] = "done" /\ SentNothing(w) /\ ctxErr = NoErr
    /\ attempt[w] = maxAttempts
    /\ Elapsed = ExhaustTime(replicas[w])
    /\ wpc[v] = "call" /\ cpc = "parked"

----------------------------------------------------------------------------
(* Outcomes in the completion channel.                                      *)

\* the collector has received response m
Received(m) == \E k \in 1..Len(seen) : seen[k].case = "recv" /\ seen[k].resp = m

(* C33: AllFailed is never returned when some worker has sent a Success:    *)
(* the collector sees the channel closed only after it has received every   *)
(* outcome sent, and none of them was a Success.                            *)
C33_AllFailedAfterDrain ==
  (Returned /\ results[1] = AllFailed) =>
    \A e \in sent : e.resp.Err # NoErr /\ Received(e.resp)

\* AllFailed has been returned after the collector has received the
\* not-found outcomes of several workers
C33_Witness ==
  /\ Returned
  /\ results[1] = AllFailed
  /\ Cardinality(sent) >= 2
  /\ \A e \in sent : e.resp.Err = ErrNotFound /\ Received(e.resp)

\* a Success waits unread in the completion channel
SuccessBuffered == \E k \in 1..Len(resCh) : resCh[k].Err = NoErr

(* C34, as claimed: a Success that a worker has put on the completion       *)
(* channel while the deadline had not yet elapsed is never lost: the call   *)
(* does not return TimedOut afterwards.                                     *)
C34_BufferedSuccessWins ==
  []((SuccessBuffered /\ ctxErr = NoErr /\ deadline > 0) => [](Returned => results[1] # TimedOut))

\* with the durations of the source, where the collector takes no time to get
\* to its select, TimedOut is never returned over a Success sent before the deadline
C34_WinsWhenCollectorPrompt ==
  [](SuccessBuffered /\ deadline > 0 => [](Returned => results[1] # TimedOut))

\* TimedOut has been returned while a Success is unread in the channel
C34_SuccessLost ==
  /\ Returned
  /\ results[1] = TimedOut
  /\ SuccessBuffered

----------------------------------------------------------------------------
(* The state of a replica.                                                  *)

\* the calls of replica w begun so far
Begun(w) == Len(calls[w]) + (IF wpc[w] = "call" THEN 1 ELSE 0)

\* the calls of replica w come one after the other, each after the wait that
\* follows the one before, and the flakyCounter of a flaky mock has counted
\* the calls that have returned
Sequential(w) ==
  /\ Begun(w) <= attempt[w] + 1
  /\ wpc[w] = "call" => Len(calls[w]) = attempt[w]
  /\ replicas[w].kind = "mock" =>
       flakyCounter[w] = IF replicas[w].flaky /\ ~replicas[w].notFound
                           THEN Len(calls[w]) ELSE 0

\* the flakyCounter of a replica is written only in the return of the call
\* that the worker of that replica has in flight
OwnCounterOnly ==
  \A w \in Workers :
    flakyCounter'[w] # flakyCounter[w] =>
      /\ wpc[w] = "call" /\ wpc'[w] # "call"
      /\ flakyCounter'[w] = flakyCounter[w] + 1
      /\ \A v \in Workers \ {w} : wpc'[v] = wpc[v] /\ flakyCounter'[v] = flakyCounter[v]

----------------------------------------------------------------------------
(* Part II: PubSubManager.                                                 *)

\* make(chan any, 10)
subBuffer == 10

\* the topic IDs of main
Topics == {"news", "other_topic"}

\* largest number of channels ever made by Subscribe
MaxSubscribers == 2

\* largest number of Publish calls followed
MaxPublishes == 2

\* a message published before the calls that are followed
OldMsg == 0

\* the unread messages a subscriber can have let pile up: one short of full, and full
Backlogs == { subBuffer - 1, subBuffer }

\* everything of the model that PubSubManager leaves alone
psRest == << vars, shipsVars, crVars, etlVars >>

Chan(buf, closed) == [ buf |-> buf, closed |-> closed ]

\* p.topics[topicID], found
Found(t) == t \in DOMAIN topics

\* the channels in the lists of p.topics

\* the channels in the lists of p.topics
Listed == { c \in 1..Len(chans) : \E t \in DOMAIN topics : \E i \in 1..Len(topics[t]) : topics[t][i] = c }

\* a manager in use: one subscriber of "news" that has left b old messages unread
Backlogged(b) ==
  /\ topics = [ t \in {"news"} |-> << 1 >> ]
  /\ chans = << Chan([ i \in 1..b |-> OldMsg ], FALSE) >>
  /\ deliveries = << >>
  /\ panicked = NoPanic
  /\ received = << << >> >>
  /\ enqueued = { [ msg |-> OldMsg, chan |-> 1 ] }
  /\ dropped = {}

PubSubInit ==
  /\ Started(<< >>)
  /\ NoField
  /\ Idle
  /\ \/ NewPubSubManager
     \/ \E b \in Backlogs : Backlogged(b)

\* case subChan <- msg can proceed: the buffer has room
Room(buf) == Len(buf) < subBuffer

\* the subscribers without subChan (the loop of Unsubscribe)
Without(subs, c) == SelectSeq(subs, LAMBDA x : x # c)

\* subsCopy of Publish
SubsCopy(t) == IF Found(t) THEN topics[t] ELSE << >>

\* Publish(topicID, msg): the copy under the read lock, and the goroutine started
Publish(t) ==
  /\ panicked = NoPanic
  /\ Len(deliveries) < MaxPublishes
  /\ deliveries' = Append(deliveries,
       [ topic |-> t, msg |-> Len(deliveries) + 1, subs |-> SubsCopy(t), next |-> 1,
         spawned |-> Found(t) ])
  /\ UNCHANGED << topics, chans, panicked, received, enqueued, dropped, psRest >>

\* one iteration of the loop of the delivery goroutine of Publish call k:
\* select { case subChan <- msg: default: }
Deliver(k) ==
  /\ panicked = NoPanic
  /\ deliveries[k].spawned
  /\ deliveries[k].next <= Len(deliveries[k].subs)
  /\ LET c == deliveries[k].subs[deliveries[k].next]
         m == deliveries[k].msg
     IN  IF chans[c].closed
           THEN /\ panicked' = "send on closed channel"
                /\ UNCHANGED << chans, deliveries, enqueued, dropped >>
           ELSE /\ panicked' = panicked
                /\ deliveries' = [ deliveries EXCEPT ![k].next = @ + 1 ]
                /\ IF Room(chans[c].buf)
                     THEN /\ chans' = [ chans EXCEPT ![c].buf = Append(@, m) ]
                          /\ enqueued' = enqueued \cup { [ msg |-> m, chan |-> c ] }
                          /\ dropped' = dropped
                     ELSE /\ dropped' = dropped \cup
                               { [ msg |-> m, chan |-> c, len |-> Len(chans[c].buf) ] }
                          /\ UNCHANGED << chans, enqueued >>
  /\ UNCHANGED << topics, received, psRest >>

\* Subscribe(topicID): a new channel, appended to the subscribers of the topic
Subscribe(t) ==
  /\ panicked = NoPanic
  /\ Len(chans) < MaxSubscribers
  /\ chans' = Append(chans, Chan(<< >>, FALSE))
  /\ received' = Append(received, << >>)
  /\ topics' = [ u \in DOMAIN topics \cup {t} |->
                   IF u = t THEN Append(SubsCopy(t), Len(chans) + 1) ELSE topics[u] ]
  /\ UNCHANGED << deliveries, panicked, enqueued, dropped, psRest >>

\* Unsubscribe(topicID, subChan), with any channel Subscribe has returned
Unsubscribe(t, c) ==
  /\ panicked = NoPanic
  /\ c \in 1..Len(chans)
  /\ IF Found(t)
       THEN /\ topics' = [ topics EXCEPT ![t] = Without(@, c) ]
            /\ IF chans[c].closed
                 THEN panicked' = "close of closed channel" /\ chans' = chans
                 ELSE panicked' = panicked /\ chans' = [ chans EXCEPT ![c].closed = TRUE ]
       ELSE UNCHANGED << topics, chans, panicked >>
  /\ UNCHANGED << deliveries, received, enqueued, dropped, psRest >>

\* Close(): every listed channel is closed and every topic deleted
Close ==
  /\ panicked = NoPanic
  /\ IF \E c \in Listed : chans[c].closed
       THEN /\ panicked' = "close of closed channel"
            /\ UNCHANGED << topics, chans >>
       ELSE /\ panicked' = panicked
            /\ chans' = [ c \in 1..Len(chans) |->
                            IF c \in Listed THEN Chan(chans[c].buf, TRUE) ELSE chans[c] ]
            /\ topics' = << >>
  /\ UNCHANGED << deliveries, received, enqueued, dropped, psRest >>

\* the consumer of channel c receives: for msg := range subChan
Receive(c) ==
  /\ panicked = NoPanic
  /\ chans[c].buf # << >>
  /\ chans' = [ chans EXCEPT ![c].buf = Tail(@) ]
  /\ received' = [ received EXCEPT ![c] = Append(@, Head(chans[c].buf)) ]
  /\ UNCHANGED << topics, deliveries, panicked, enqueued, dropped, psRest >>

PubSubNext ==
  \/ \E t \in Topics : Publish(t)
  \/ \E k \in 1..Len(deliveries) : Deliver(k)
  \/ \E t \in Topics : Subscribe(t)
  \/ \E t \in Topics : \E c \in 1..Len(chans) : Unsubscribe(t, c)
  \/ Close
  \/ \E c \in 1..Len(chans) : Receive(c)

(***************************************************************************)
(* Any callers of the four methods, the delivery goroutines and the        *)
(* consumers, in every interleaving.                                       *)
(***************************************************************************)
PubSubSpec == PubSubInit /\ [][PubSubNext]_<< psVars, psRest >>

\* the delivery goroutine of Publish call k has gone through its whole copy
Delivered(k) == deliveries[k].next > Len(deliveries[k].subs)

\* channel c still waits for its turn in the loop of the delivery goroutine of call k
Awaits(k, c) ==
  \E j \in deliveries[k].next..Len(deliveries[k].subs) : deliveries[k].subs[j] = c

(* C24, as claimed: in every interleaving of Publish, Subscribe,            *)
(* Unsubscribe and Close calls and of the delivery goroutines, no message   *)
(* is ever sent on a subscriber channel that has been closed.               *)
C24_NoSendOnClosed == panicked # "send on closed channel"

(* C25, as claimed: a delivery never blocks on a subscriber: it skips a     *)
(* subscriber only when the buffer of that subscriber is full, and every    *)
(* other subscriber in its copy whose buffer has room gets the message: no  *)
(* delivery is ended by one of its sends before it has served a subscriber  *)
(* that is still subscribed and has room.                                   *)
C25_FullDropsOnlyThere ==
  /\ \A d \in dropped : d.len = subBuffer
  /\ \A k \in 1..Len(deliveries) : \A c \in 1..Len(chans) :
       (panicked = "send on closed channel" /\ deliveries[k].spawned /\ Awaits(k, c))
         => ~(c \in Listed /\ ~chans[c].closed /\ Room(chans[c].buf))

\* as long as no channel is closed, a finished delivery has either sent the
\* message to a subscriber of its copy or found the buffer of that subscriber full
C25_ServedWhileOpen ==
  (\A c \in 1..Len(chans) : ~chans[c].closed) =>
    /\ panicked = NoPanic
    /\ \A d \in dropped : d.len = subBuffer
    /\ \A k \in 1..Len(deliveries) :
         Delivered(k) =>
           \A j \in 1..Len(deliveries[k].subs) :
             LET c == deliveries[k].subs[j]
                 m == deliveries[k].msg
             IN  \/ [ msg |-> m, chan |-> c ] \in enqueued
                 \/ [ msg |-> m, chan |-> c, len |-> subBuffer ] \in dropped

\* a delivery has skipped a subscriber whose buffer is full and has sent the
\* message to the next subscriber of its copy
C25_Skipped ==
  \E k \in 1..Len(deliveries) : \E c, e \in 1..Len(chans) :
    /\ Delivered(k)
    /\ [ msg |-> deliveries[k].msg, chan |-> c, len |-> subBuffer ] \in dropped
    /\ [ msg |-> deliveries[k].msg, chan |-> e ] \in enqueued

InOrder(q) == \A i, j \in 1..Len(q) : i < j => q[i] <= q[j]

(* C37, as claimed: of two messages published one after the other to a      *)
(* topic, a subscriber that receives both receives the first one first.     *)
C37_PublicationOrder == \A c \in 1..Len(chans) : InOrder(received[c])

\* a subscriber has received both messages of two Publish calls in the order
\* of the calls
C37_InOrderSeen ==
  \E c \in 1..Len(chans) : \E i \in 1..(Len(received[c]) - 1) :
    received[c][i] = 1 /\ received[c][i + 1] = 2

(***************************************************************************)
(* Part III.  calculateShips                                               *)
(*                                                                         *)
(* The field is a slice of cells, row after row; Go indexes it from 0, so  *)
(* cell i of the code is f[i + 1] here.                                    *)
(***************************************************************************)
MaxCells == 6

MaxWidth == 3

\* water and ship
Cells == {0, 1}

\* the two fields of main, with their widths
battleField1 ==
  << 1, 0, 0, 1, 1,
     0, 1, 0, 0, 0,
     0, 1, 0, 1, 1,
     0, 1, 0, 0, 0,
     0, 1, 0, 1, 1 >>

width1 == 5

battleField2 ==
  << 1, 1, 0, 0,
     0, 0, 0, 1,
     1, 1, 0, 1 >>

width2 == 4

SmallFields == UNION { [ 1..n -> Cells ] : n \in 0..MaxCells }

\* the calls made: every small field with every small width, and the calls of main
ShipsInputs ==
  { << f, w >> : f \in SmallFields, w \in 0..MaxWidth }
    \cup { << battleField1, width1 >>, << battleField2, width2 >> }

ShipsInit ==
  /\ Started(<< >>)
  /\ NewPubSubManager
  /\ Idle
  /\ \E in \in ShipsInputs : battleField = in[1] /\ width = in[2]
  /\ shipsRet = NotCalled

\* cell i of f, i counted from 0
Cell(f, i) == f[i + 1]

\* the loop body for cell i: is it the top left cell of a ship
TopLeft(f, w, i) ==
  LET row == i \div w
      col == i % w
      hasTopShip == row > 0 /\ Cell(f, i - w) = 1
      hasLeftShip == col > 0 /\ Cell(f, i - 1) = 1
  IN  Cell(f, i) # 0 /\ ~hasTopShip /\ ~hasLeftShip

calculateShips(f, w) ==
  IF Len(f) = 0 THEN [ called |-> TRUE, count |-> 0, err |-> "nil" ]
  ELSE IF w = 0 THEN [ called |-> TRUE, count |-> 0, err |-> "panic: integer divide by zero" ]
  ELSE IF Len(f) % w # 0 THEN [ called |-> TRUE, count |-> 0, err |-> "not a multiple" ]
  ELSE [ called |-> TRUE,
         count  |-> Cardinality({ i \in 0..(Len(f) - 1) : TopLeft(f, w, i) }),
         err    |-> "nil" ]

ShipsCall ==
  /\ ~shipsRet.called
  /\ shipsRet' = calculateShips(battleField, width)
  /\ UNCHANGED << battleField, width, psVars, vars, crVars, etlVars >>

ShipsNext == ShipsCall

ShipsSpec == ShipsInit /\ [][ShipsNext]_<< shipsVars, psVars, vars, crVars, etlVars >>

\* cells i and j of a field of width w touch horizontally or vertically
Adjacent(i, j, w) ==
  \/ j = i + 1 /\ j % w # 0
  \/ i = j + 1 /\ i % w # 0
  \/ j = i + w
  \/ i = j + w

ShipCells(f) == { i \in 0..(Len(f) - 1) : Cell(f, i) = 1 }

\* the ship that the cells of S belong to
RECURSIVE Group(_, _, _)
Group(S, f, w) ==
  LET T == S \cup { j \in ShipCells(f) : \E i \in S : Adjacent(i, j, w) }
  IN  IF T = S THEN S ELSE Group(T, f, w)

\* the number of ships: maximal groups of adjacent cells with value 1
Ships(f, w) == Cardinality({ Group({i}, f, w) : i \in ShipCells(f) })

Multiple == width > 0 /\ Len(battleField) % width = 0

(* C26, as claimed: for every field whose length is a multiple of the      *)
(* width, calculateShips returns without error the number of ships, the    *)
(* maximal groups of horizontally or vertically adjacent cells with value  *)
(* 1; for the 5x5 field of main that number is the documented 4.           *)
C26_CountsShips ==
  (shipsRet.called /\ Multiple) =>
    /\ shipsRet.err = "nil"
    /\ shipsRet.count = Ships(battleField, width)
    /\ (battleField = battleField1 /\ width = width1) => shipsRet.count = 4

\* what the code returns for the two fields of main: 5, the real number of
\* ships of the first field, and 3 for the second
C26_Demo ==
  shipsRet.called =>
    /\ (battleField = battleField1 /\ width = width1) =>
         shipsRet.count = 5 /\ Ships(battleField, width) = 5
    /\ (battleField = battleField2 /\ width = width2) =>
         shipsRet.count = 3 /\ Ships(battleField, width) = 3

\* the count is never below the number of ships: every ship has a top left cell
C26_AtLeastShips ==
  (shipsRet.called /\ Multiple) =>
    shipsRet.err = "nil" /\ shipsRet.count >= Ships(battleField, width)

(***************************************************************************)
(* Part IV.  CachedRepository                                              *)
(*                                                                         *)
(* A call is a sequence of steps, each of them atomic by the mutex that    *)
(* it holds: the one of the cache (c.mu) or the one of the database        *)
(* (db.mu).  Between its steps a call holds no lock.                       *)
(***************************************************************************)
MaxOps == 3

\* a key of newMockDB and a key that it does not hold
Keys == {"user:1", "user:3"}

\* the values written by Set
SetValues == {"Alice"}

\* the key is not in the map
NoEntry == "<no entry>"

\* the zero value of string
EmptyString == ""

ErrKeyNotFound == "key not found"

crRest == << vars, psVars, shipsVars, etlVars >>

\* newMockDB()
newMockDB == [ k \in Keys |-> IF k = "user:1" THEN "John" ELSE NoEntry ]

\* NewCachedRepository(newMockDB())
NewCachedRepository ==
  /\ cache = [ k \in Keys |-> NoEntry ]
  /\ data = newMockDB
  /\ ops = << >>
  /\ deleted = [ k \in Keys |-> FALSE ]
  /\ overlapped = FALSE

CachedRepoInit ==
  /\ Started(<< >>)
  /\ NewPubSubManager
  /\ NoField
  /\ NoPipeline
  /\ NewCachedRepository

\* a call: its method and arguments, its position, its locals and what it returned
Op(m, ks, v) ==
  [ op |-> m, keys |-> ks, val |-> v, pc |-> "start",
    missing |-> {}, got |-> [ k \in Keys |-> EmptyString ],
    ret |-> [ k \in Keys |-> EmptyString ], err |-> NoErr,
    hit |-> FALSE, afterDel |-> FALSE ]

\* the calls a client can make
Calls ==
  { Op("Get", {k}, EmptyString) : k \in Keys }
    \cup { Op("MGet", ks, EmptyString) : ks \in (SUBSET Keys) \ {{}} }
    \cup { Op("Set", {k}, v) : k \in Keys, v \in SetValues }
    \cup { Op("Del", {k}, EmptyString) : k \in Keys }

\* the key of a Get, Set or Del call
KeyOf(o) == CHOOSE k \in o.keys : TRUE

InFlight(i) == ops[i].pc # "done"

\* some goroutine calls a method of the CachedRepository
CrCall(o) ==
  /\ Len(ops) < MaxOps
  /\ ops' = Append(ops, [ o EXCEPT !.afterDel = (o.op = "Get" /\ deleted[KeyOf(o)]) ])
  /\ overlapped' = (overlapped \/ \E i \in 1..Len(ops) : InFlight(i))
  /\ UNCHANGED << cache, data, deleted, crRest >>

\* Get: the look into the cache under RLock
GetCheck(i) ==
  /\ ops[i].op = "Get" /\ ops[i].pc = "start"
  /\ LET k == KeyOf(ops[i])
     IN  IF cache[k] # NoEntry
           THEN ops' = [ ops EXCEPT ![i].pc = "done", ![i].hit = TRUE, ![i].ret[k] = cache[k] ]
           ELSE ops' = [ ops EXCEPT ![i].pc = "fetch" ]
  /\ UNCHANGED << cache, data, deleted, overlapped, crRest >>

\* Get: value, err := c.repo.Get(key)
GetFetch(i) ==
  /\ ops[i].op = "Get" /\ ops[i].pc = "fetch"
  /\ LET k == KeyOf(ops[i])
     IN  IF data[k] # NoEntry
           THEN ops' = [ ops EXCEPT ![i].pc = "store", ![i].got[k] = data[k] ]
           ELSE ops' = [ ops EXCEPT ![i].pc = "done", ![i].err = ErrKeyNotFound ]
  /\ UNCHANGED << cache, data, deleted, overlapped, crRest >>

\* Get: c.cache[key] = value under Lock, and the return
GetStore(i) ==
  /\ ops[i].op = "Get" /\ ops[i].pc = "store"
  /\ LET k == KeyOf(ops[i])
     IN  /\ cache' = [ cache EXCEPT ![k] = ops[i].got[k] ]
         /\ ops' = [ ops EXCEPT ![i].pc = "done", ![i].ret[k] = ops[i].got[k] ]
  /\ UNCHANGED << data, deleted, overlapped, crRest >>

\* MGet: the loop over the keys under RLock
MGetCheck(i) ==
  /\ ops[i].op = "MGet" /\ ops[i].pc = "start"
  /\ LET missingKeys == { k \in ops[i].keys : cache[k] = NoEntry }
         hits == [ k \in Keys |->
                     IF k \in ops[i].keys \ missingKeys THEN cache[k] ELSE EmptyString ]
     IN  ops' = [ ops EXCEPT ![i].pc = IF missingKeys = {} THEN "done" ELSE "fetch",
                             ![i].missing = missingKeys,
                             ![i].ret = hits ]
  /\ UNCHANGED << cache, data, deleted, overlapped, crRest >>

\* mockDBRepository.MGet: results[i] = db.data[key], the zero value for a key not held
dbMGet(ks) == [ k \in Keys |-> IF k \in ks /\ data[k] # NoEntry THEN data[k] ELSE EmptyString ]

\* MGet: missingValues, err := c.repo.MGet(missingKeys...)
MGetFetch(i) ==
  /\ ops[i].op = "MGet" /\ ops[i].pc = "fetch"
  /\ ops' = [ ops EXCEPT ![i].pc = "store", ![i].got = dbMGet(ops[i].missing) ]
  /\ UNCHANGED << cache, data, deleted, overlapped, crRest >>

\* MGet: the loop over missingValues under Lock, and the return
MGetStore(i) ==
  /\ ops[i].op = "MGet" /\ ops[i].pc = "store"
  /\ cache' = [ k \in Keys |-> IF k \in ops[i].missing THEN ops[i].got[k] ELSE cache[k] ]
  /\ ops' = [ ops EXCEPT ![i].pc = "done",
                         ![i].ret = [ k \in Keys |-> IF k \in ops[i].missing
                                                       THEN ops[i].got[k] ELSE ops[i].ret[k] ] ]
  /\ UNCHANGED << data, deleted, overlapped, crRest >>

\* Set: c.cache[key] = value under Lock
SetCache(i) ==
  /\ ops[i].op = "Set" /\ ops[i].pc = "start"
  /\ cache' = [ cache EXCEPT ![KeyOf(ops[i])] = ops[i].val ]
  /\ deleted' = [ deleted EXCEPT ![KeyOf(ops[i])] = FALSE ]
  /\ ops' = [ ops EXCEPT ![i].pc = "repo" ]
  /\ UNCHANGED << data, overlapped, crRest >>

\* Set: return c.repo.Set(key, value)
SetRepo(i) ==
  /\ ops[i].op = "Set" /\ ops[i].pc = "repo"
  /\ data' = [ data EXCEPT ![KeyOf(ops[i])] = ops[i].val ]
  /\ ops' = [ ops EXCEPT ![i].pc = "done" ]
  /\ UNCHANGED << cache, deleted, overlapped, crRest >>

\* Del: delete(c.cache, key) under Lock
DelCache(i) ==
  /\ ops[i].op = "Del" /\ ops[i].pc = "start"
  /\ cache' = [ cache EXCEPT ![KeyOf(ops[i])] = NoEntry ]
  /\ ops' = [ ops EXCEPT ![i].pc = "repo" ]
  /\ UNCHANGED << data, deleted, overlapped, crRest >>

\* Del: return c.repo.Del(key)
DelRepo(i) ==
  /\ ops[i].op = "Del" /\ ops[i].pc = "repo"
  /\ data' = [ data EXCEPT ![KeyOf(ops[i])] = NoEntry ]
  /\ deleted' = [ deleted EXCEPT ![KeyOf(ops[i])] = TRUE ]
  /\ ops' = [ ops EXCEPT ![i].pc = "done" ]
  /\ UNCHANGED << cache, overlapped, crRest >>

CachedRepoNext ==
  \/ \E o \in Calls : CrCall(o)
  \/ \E i \in 1..Len(ops) : GetCheck(i)
  \/ \E i \in 1..Len(ops) : GetFetch(i)
  \/ \E i \in 1..Len(ops) : GetStore(i)
  \/ \E i \in 1..Len(ops) : MGetCheck(i)
  \/ \E i \in 1..Len(ops) : MGetFetch(i)
  \/ \E i \in 1..Len(ops) : MGetStore(i)
  \/ \E i \in 1..Len(ops) : SetCache(i)
  \/ \E i \in 1..Len(ops) : SetRepo(i)
  \/ \E i \in 1..Len(ops) : DelCache(i)
  \/ \E i \in 1..Len(ops) : DelRepo(i)

(***************************************************************************)
(* Any clients calling the four methods, concurrently or one after the     *)
(* other.                                                                  *)
(***************************************************************************)
CachedRepoSpec == CachedRepoInit /\ [][CachedRepoNext]_<< crVars, crRest >>

\* no call is in flight
Quiescent == \A i \in 1..Len(ops) : ~InFlight(i)

\* the cache has for key k what the database has: its value, or the zero value
\* that the MGet of the database reports for a key it does not hold
Coherent(k) ==
  \/ cache[k] = data[k]
  \/ cache[k] = EmptyString /\ data[k] = NoEntry

(* C38, as claimed: once every call of any interleaving of concurrent Get,  *)
(* MGet, Set and Del calls has returned, every key in the cache has there   *)
(* the value the database holds for it.                                     *)
C38_CacheCoherent ==
  Quiescent => \A k \in Keys : cache[k] # NoEntry => Coherent(k)

\* when no call has ever begun while another was in flight, the cache is
\* coherent whenever no call is in flight
C38_CoherentWhenSequential ==
  (Quiescent /\ ~overlapped) => \A k \in Keys : cache[k] # NoEntry => Coherent(k)

\* several calls have overlapped and the cache is coherent all the same
C38_OverlapCoherent ==
  /\ Quiescent
  /\ overlapped
  /\ Len(ops) = MaxOps
  /\ \E k \in Keys : cache[k] # NoEntry
  /\ \A k \in Keys : cache[k] # NoEntry => Coherent(k)

(* C39, as claimed: calls being made one after the other, a Get of a key    *)
(* whose last write was a Del is a cache miss and returns the error of the  *)
(* database for the absent key, whatever Get and MGet calls came between.   *)
C39_GetAfterDelMisses ==
  \A i \in 1..Len(ops) :
    (ops[i].op = "Get" /\ ops[i].pc = "done" /\ ops[i].afterDel /\ ~overlapped) =>
      ~ops[i].hit /\ ops[i].err = ErrKeyNotFound

\* a Get that follows the Del of its key directly, or after Get calls only,
\* is a miss and returns the error
C39_MissWithoutMGet ==
  \A i \in 1..Len(ops) :
    (/\ ops[i].op = "Get" /\ ops[i].pc = "done" /\ ops[i].afterDel /\ ~overlapped
     /\ \A j \in 1..(i - 1) : ops[j].op # "MGet") =>
      ~ops[i].hit /\ ops[i].err = ErrKeyNotFound

\* a Get after the Del of its key has come back with the error of the database
C39_MissSeen ==
  \E i \in 1..Len(ops) :
    /\ ops[i].op = "Get" /\ ops[i].pc = "done" /\ ops[i].afterDel /\ ~overlapped
    /\ ~ops[i].hit /\ ops[i].err = ErrKeyNotFound

(***************************************************************************)
(* Part V.  managerImpl.Manage                                             *)
(*                                                                         *)
(* A Processor may return an error; a record says which of the processors  *)
(* returns one for it, if any.                                             *)
(***************************************************************************)
MaxRecords == 3

\* the processors of main: addTimestampProcessor, stringifyValueProcessor
NumProcessors == 2

\* a nil error
NoGroupErr == 0

etlRest == << vars, psVars, shipsVars, crVars >>

\* Data{ID: id}, for which processor `failsAt` returns an error (0: none does)
Record(id, failsAt) == [ ID |-> id, failsAt |-> failsAt ]

\* what reader.Read() can return
DataLists ==
  { l \in SeqsUpTo({ Record(id, f) : id \in 1..MaxRecords, f \in 0..NumProcessors }, MaxRecords) :
      \A i \in 1..Len(l) : l[i].ID = i }

Records == 1..Len(dataList)

\* Manage has read the records and started one goroutine of the group for each
Managing(list) ==
  /\ dataList = list
  /\ gpc = [ r \in 1..Len(list) |-> "run" ]
  /\ applied = [ r \in 1..Len(list) |-> 0 ]
  /\ dataChan = << >>
  /\ groupErr = NoGroupErr
  /\ mpc = "wait"
  /\ processedData = << >>
  /\ written = << >>

PipelineInit ==
  /\ Started(<< >>)
  /\ NewPubSubManager
  /\ NoField
  /\ NoRepo
  /\ \E list \in DataLists : Managing(list)

\* errgroup.Group: the first non-nil error returned is the one Wait returns
FirstErr(old, r) == IF old = NoGroupErr THEN r ELSE old

\* tempData, err = processor.Process(*tempData), and the return on an error
Process(r) ==
  /\ gpc[r] = "run"
  /\ applied[r] < NumProcessors
  /\ IF dataList[r].failsAt = applied[r] + 1
       THEN /\ gpc' = [ gpc EXCEPT ![r] = "failed" ]
            /\ groupErr' = FirstErr(groupErr, dataList[r].ID)
            /\ applied' = applied
       ELSE /\ applied' = [ applied EXCEPT ![r] = @ + 1 ]
            /\ UNCHANGED << gpc, groupErr >>
  /\ UNCHANGED << dataList, dataChan, mpc, processedData, written, etlRest >>

\* dataChan <- tempData; return nil
SendData(r) ==
  /\ gpc[r] = "run"
  /\ applied[r] = NumProcessors
  /\ Len(dataChan) < Len(dataList)
  /\ dataChan' = Append(dataChan, dataList[r].ID)
  /\ gpc' = [ gpc EXCEPT ![r] = "done" ]
  /\ UNCHANGED << dataList, applied, groupErr, mpc, processedData, written, etlRest >>

\* g.Wait() returns: with an error Manage closes the channel and returns
WaitReturns ==
  /\ mpc = "wait"
  /\ \A r \in Records : gpc[r] \in {"failed", "done"}
  /\ mpc' = IF groupErr # NoGroupErr THEN "done" ELSE "collect"
  /\ UNCHANGED << dataList, gpc, applied, dataChan, groupErr, processedData, written, etlRest >>

\* for d := range dataChan { processedData = append(processedData, d) }
Collect ==
  /\ mpc = "collect"
  /\ IF dataChan # << >>
       THEN /\ processedData' = Append(processedData, Head(dataChan))
            /\ dataChan' = Tail(dataChan)
            /\ mpc' = mpc
       ELSE /\ mpc' = "write"
            /\ UNCHANGED << processedData, dataChan >>
  /\ UNCHANGED << dataList, gpc, applied, groupErr, written, etlRest >>

\* if len(processedData) > 0 { m.writer.Write(processedData) }
Write ==
  /\ mpc = "write"
  /\ written' = IF Len(processedData) > 0 THEN Append(written, processedData) ELSE written
  /\ mpc' = "done"
  /\ UNCHANGED << dataList, gpc, applied, dataChan, groupErr, processedData, etlRest >>

PipelineNext ==
  \/ \E r \in Records : Process(r)
  \/ \E r \in Records : SendData(r)
  \/ WaitReturns
  \/ Collect
  \/ Write

(***************************************************************************)
(* The goroutines of the group and the manager, in every interleaving.     *)
(***************************************************************************)
PipelineSpec == PipelineInit /\ [][PipelineNext]_<< etlVars, etlRest >>

(* C40, as claimed: once a processor has returned an error for a record,    *)
(* the group is cancelled: no goroutine of another record applies a         *)
(* processor any more, and the writer is not invoked.                       *)
C40_GroupCancelled ==
  [][ groupErr # NoGroupErr => (applied' = applied /\ written' = << >>) ]_<< etlVars, etlRest >>

\* after an error the writer is never invoked: Manage returns when Wait does
C40_WriterNotInvoked == groupErr # NoGroupErr => written = << >>

\* Wait returns only when every goroutine of the group has returned, those of
\* the records without an error after all their processors
C40_WaitsForAll ==
  mpc # "wait" =>
    \A r \in Records :
      \/ gpc[r] = "failed"
      \/ gpc[r] = "done" /\ applied[r] = NumProcessors

\* Manage has returned with an error after the goroutine of another record
\* has applied all processors and sent its record
C40_OthersWentOn ==
  /\ mpc = "done"
  /\ groupErr # NoGroupErr
  /\ \E r \in Records : gpc[r] = "done" /\ applied[r] = NumProcessors

====
